---------------------------- MODULE Spec2Model ----------------------------
(***************************************************************************)
(* Model of the weserv image API utilities (src/src/api/utils/utility.h)   *)
(* and of the request lifecycle of ApiManagerImpl                          *)
(* (src/src/api/api_manager_impl.h).                                       *)
(*                                                                         *)
(* The utilities are pure functions: each is an operator, and one action   *)
(* per utility calls it on an input drawn from a bounded set and records   *)
(* the call in `op`, `args` and `ret`.  A request handled by               *)
(* ApiManagerImpl::process is a small step machine over `pc`.              *)
(***************************************************************************)
EXTENDS Integers, Sequences, FiniteSets, TLC

VARIABLES
    build,        \* compile-time configuration of the translation unit
    op,           \* name of the function called last
    args,         \* its arguments
    ret,          \* its return value
    log,          \* messages written to the log so far
    pc,           \* position of the request being processed
    request,      \* the request in flight: query, source image, fault plan
    image,        \* the image handle of the request in flight
    status,       \* the Status of the request in flight
    cleanups,     \* number of times clean_up ran for the request in flight
    returned      \* the Status handed back to the caller, with the cleanup count then

vars == <<build, op, args, ret, log, pc, request, image, status, cleanups, returned>>

util_vars == <<op, args, ret>>
request_vars == <<pc, request, image, status, cleanups, returned>>

None == "none"

(***************************************************************************)
(* Bounds of the model.                                                    *)
(***************************************************************************)
MaxDim == 3
MaxFrames == 2

(***************************************************************************)
(* int is 32 bits wide.                                                    *)
(***************************************************************************)
INT_MAX == 2147483647
INT_MIN == -INT_MAX - 1

\* C++ integer division by a positive divisor: truncates toward zero.
CDiv(a, b) == IF a >= 0 THEN a \div b ELSE -((-a) \div b)

(***************************************************************************)
(* enums::Position.  "Other" stands for any value of the enum type that is *)
(* none of the eight named edge and corner anchors and not Centre.         *)
(***************************************************************************)
Position == {"Top", "Right", "Bottom", "Left", "TopRight", "BottomRight",
             "BottomLeft", "TopLeft", "Centre", "Other"}

\* The switch with floor division in place of truncation.
calculate_position_floor(in_width, in_height, out_width, out_height, pos) ==
    LET dw == out_width - in_width
        dh == out_height - in_height
    IN  CASE pos = "Top"         -> <<dw \div 2, 0>>
          [] pos = "Right"       -> <<dw, dh \div 2>>
          [] pos = "Bottom"      -> <<dw \div 2, dh>>
          [] pos = "Left"        -> <<0, dh \div 2>>
          [] pos = "TopRight"    -> <<dw, 0>>
          [] pos = "BottomRight" -> <<dw, dh>>
          [] pos = "BottomLeft"  -> <<0, dh>>
          [] pos = "TopLeft"     -> <<0, 0>>
          [] OTHER               -> <<dw \div 2, dh \div 2>>

\* The switch with the right-hand anchors placed at out_width.
calculate_position_noinner(in_width, in_height, out_width, out_height, pos) ==
    LET dw == out_width - in_width
        dh == out_height - in_height
    IN  CASE pos = "Top"         -> <<CDiv(dw, 2), 0>>
          [] pos = "Right"       -> <<out_width, CDiv(dh, 2)>>
          [] pos = "Bottom"      -> <<CDiv(dw, 2), dh>>
          [] pos = "Left"        -> <<0, CDiv(dh, 2)>>
          [] pos = "TopRight"    -> <<out_width, 0>>
          [] pos = "BottomRight" -> <<out_width, dh>>
          [] pos = "BottomLeft"  -> <<0, dh>>
          [] pos = "TopLeft"     -> <<0, 0>>
          [] OTHER               -> <<CDiv(dw, 2), CDiv(dh, 2)>>

calculate_position(in_width, in_height, out_width, out_height, pos) ==
    CASE pos = "Top"         -> <<CDiv(out_width - in_width, 2), 0>>
      [] pos = "Right"       -> <<out_width - in_width,
                                  CDiv(out_height - in_height, 2)>>
      [] pos = "Bottom"      -> <<CDiv(out_width - in_width, 2),
                                  out_height - in_height>>
      [] pos = "Left"        -> <<0, CDiv(out_height - in_height, 2)>>
      [] pos = "TopRight"    -> <<out_width - in_width, 0>>
      [] pos = "BottomRight" -> <<out_width - in_width, out_height - in_height>>
      [] pos = "BottomLeft"  -> <<0, out_height - in_height>>
      [] pos = "TopLeft"     -> <<0, 0>>
      [] OTHER               -> <<CDiv(out_width - in_width, 2),
                                  CDiv(out_height - in_height, 2)>>

(***************************************************************************)
(* Widths and heights are pixel counts: non-negative ints, up to INT_MAX.  *)
(* Over that range out - in lies in -INT_MAX .. INT_MAX, so the            *)
(* subtraction of calculate_position never overflows.                      *)
(***************************************************************************)
Dims == (0 .. MaxDim) \cup {INT_MAX - 1, INT_MAX}

CalculatePosition ==
    /\ pc = "idle" /\ op = None
    /\ \E in_width \in Dims, in_height \in Dims,
          out_width \in Dims, out_height \in Dims, pos \in Position :
        /\ op' = "calculate_position"
        /\ args' = [in_width |-> in_width, in_height |-> in_height,
                    out_width |-> out_width, out_height |-> out_height,
                    pos |-> pos]
        /\ ret' = calculate_position(in_width, in_height,
                                     out_width, out_height, pos)
    /\ UNCHANGED <<build, log, request_vars>>

\* The caller asks again with the inner and the outer rectangle exchanged.
CalculatePositionExchanged ==
    /\ pc = "idle" /\ op = "calculate_position"
    /\ op' = "calculate_position_exchanged"
    /\ args' = args
    /\ ret' = [first |-> ret,
               second |-> calculate_position(args.out_width, args.out_height,
                                             args.in_width, args.in_height,
                                             args.pos)]
    /\ UNCHANGED <<build, log, request_vars>>

(***************************************************************************)
(* mul_overflow.  The product of two ints needs up to 63 bits, so the      *)
(* model carries it as a sign and a magnitude in six limbs of 11 bits,     *)
(* least significant first; no limb operation leaves the 32-bit range.     *)
(***************************************************************************)
Limb == 2 ^ 11

\* The magnitude of an int (at most 2^31) as three limbs.
Magnitude(a) ==
    IF a = INT_MIN
    THEN <<0, 0, 512>>
    ELSE LET m == IF a < 0 THEN -a ELSE a
         IN  <<m % Limb, (m \div Limb) % Limb, m \div (Limb * Limb)>>

\* Schoolbook product of two three-limb magnitudes, carries propagated.
MagnitudeProduct(x, y) ==
    LET c0 == x[1] * y[1]
        c1 == x[1] * y[2] + x[2] * y[1] + (c0 \div Limb)
        c2 == x[1] * y[3] + x[2] * y[2] + x[3] * y[1] + (c1 \div Limb)
        c3 == x[2] * y[3] + x[3] * y[2] + (c2 \div Limb)
        c4 == x[3] * y[3] + (c3 \div Limb)
    IN  <<c0 % Limb, c1 % Limb, c2 % Limb, c3 % Limb, c4 % Limb, c4 \div Limb>>

IsZero(m) == \A i \in 1 .. Len(m) : m[i] = 0

\* static_cast<int64_t>(a) * b: exact, since |a * b| <= 2^62.
Product(a, b) ==
    LET m == MagnitudeProduct(Magnitude(a), Magnitude(b))
    IN  [neg |-> (a < 0) # (b < 0) /\ ~IsZero(m), mag |-> m]

\* t > std::numeric_limits<int>::max(): the magnitude is at least 2^31.
AboveIntMax(t) ==
    /\ ~t.neg
    /\ (t.mag[3] >= 512 \/ t.mag[4] > 0 \/ t.mag[5] > 0 \/ t.mag[6] > 0)

\* t < std::numeric_limits<int>::min(): the magnitude is more than 2^31.
BelowIntMin(t) ==
    /\ t.neg
    /\ \/ t.mag[4] > 0 \/ t.mag[5] > 0 \/ t.mag[6] > 0
       \/ t.mag[3] > 512
       \/ t.mag[3] = 512 /\ (t.mag[2] > 0 \/ t.mag[1] > 0)

\* static_cast<int>(t): the low 32 bits of t read as a two's complement int.
TruncateToInt(t) ==
    LET low31 == (t.mag[3] % 512) * Limb * Limb + t.mag[2] * Limb + t.mag[1]
        bit31 == (t.mag[3] \div 512) % 2
    IN  IF ~t.neg
        THEN IF bit31 = 0 THEN low31 ELSE (low31 - INT_MAX) - 1
        ELSE IF bit31 = 0 THEN -low31
             ELSE IF low31 = 0 THEN INT_MIN ELSE (INT_MAX - low31) + 1

\* __builtin_smul_overflow(a, b, result): the product is computed exactly,
\* *result gets it truncated to int, and the return value tells whether the
\* exact product differs from *result.
builtin_smul_overflow(a, b) ==
    LET t == Product(a, b)
    IN  [overflow |-> AboveIntMax(t) \/ BelowIntMin(t),
         result |-> TruncateToInt(t)]

\* The portable branch without its lower-bound test.
mul_overflow_portable_nomin(a, b) ==
    LET t == Product(a, b)
    IN  [overflow |-> AboveIntMax(t), result |-> TruncateToInt(t)]

\* The #else branch: int64_t t = a * b; *result = int(t); t > max || t < min.
mul_overflow_portable(a, b) ==
    LET t == Product(a, b)
    IN  [overflow |-> AboveIntMax(t) \/ BelowIntMin(t),
         result |-> TruncateToInt(t)]

mul_overflow(smul_builtin, a, b) ==
    IF smul_builtin
    THEN builtin_smul_overflow(a, b)
    ELSE mul_overflow_portable(a, b)

\* Operands around the places where a product leaves the int range.
MulOperands ==
    (-MaxDim .. MaxDim)
        \cup {INT_MIN, INT_MIN + 1, -65536, -46341, -46340,
              46340, 46341, 65535, 65536,
              INT_MAX \div 2, (INT_MAX \div 2) + 1, INT_MAX - 1, INT_MAX}

MulOverflow ==
    /\ pc = "idle" /\ op = None
    /\ \E a \in MulOperands, b \in MulOperands :
        /\ op' = "mul_overflow"
        /\ args' = [a |-> a, b |-> b]
        /\ ret' = mul_overflow(build.smul_builtin, a, b)
    /\ UNCHANGED <<build, log, request_vars>>

(***************************************************************************)
(* resolve_angle_rotation.  The function is a bare switch: it writes       *)
(* nothing to the log and cannot throw.                                    *)
(***************************************************************************)
VipsAngle == {"VIPS_ANGLE_D0", "VIPS_ANGLE_D90", "VIPS_ANGLE_D180",
              "VIPS_ANGLE_D270"}

\* The switch applied to the angle reduced modulo a full turn.
resolve_angle_rotation_mod(angle) ==
    CASE angle % 360 = 90  -> "VIPS_ANGLE_D90"
      [] angle % 360 = 180 -> "VIPS_ANGLE_D180"
      [] angle % 360 = 270 -> "VIPS_ANGLE_D270"
      [] OTHER             -> "VIPS_ANGLE_D0"

resolve_angle_rotation(angle) ==
    CASE angle = 90  -> "VIPS_ANGLE_D90"
      [] angle = 180 -> "VIPS_ANGLE_D180"
      [] angle = 270 -> "VIPS_ANGLE_D270"
      [] OTHER       -> "VIPS_ANGLE_D0"

Angles ==
    (-MaxDim .. MaxDim)
        \cup {INT_MIN, -270, -180, -90, 45, 89, 90, 91, 135, 180, 270,
              271, 360, 450, 540, 630, 720, INT_MAX}

ResolveAngleRotation ==
    /\ pc = "idle" /\ op = None
    /\ \E angle \in Angles :
        /\ op' = "resolve_angle_rotation"
        /\ args' = [angle |-> angle]
        /\ ret' = resolve_angle_rotation(angle)
    /\ UNCHANGED <<build, log, request_vars>>

(***************************************************************************)
(* Loader names are std::strings: sequences of characters.                 *)
(***************************************************************************)
VipsForeignLoad ==
    <<"V", "i", "p", "s", "F", "o", "r", "e", "i", "g", "n", "L", "o", "a", "d">>

LoadJpeg   == VipsForeignLoad \o <<"J", "p", "e", "g">>
LoadPng    == VipsForeignLoad \o <<"P", "n", "g">>
LoadWebp   == VipsForeignLoad \o <<"W", "e", "b", "p">>
LoadTiff   == VipsForeignLoad \o <<"T", "i", "f", "f">>
LoadGif    == VipsForeignLoad \o <<"G", "i", "f">>
LoadSvg    == VipsForeignLoad \o <<"S", "v", "g">>
LoadPdf    == VipsForeignLoad \o <<"P", "d", "f">>
LoadHeif   == VipsForeignLoad \o <<"H", "e", "i", "f">>
LoadMagick == VipsForeignLoad \o <<"M", "a", "g", "i", "c", "k">>

\* loader.rfind(prefix, 0) == 0: the only match rfind may report starts at
\* index 0, so the test is "loader starts with prefix".
rfind_at_0(loader, prefix) ==
    /\ Len(loader) >= Len(prefix)
    /\ SubSeq(loader, 1, Len(prefix)) = prefix

ImageType == {"Jpeg", "Png", "Webp", "Tiff", "Gif", "Svg", "Pdf", "Heif",
              "Magick", "Unknown"}

\* The chain with the Heif test comparing for equality instead of a prefix.
determine_image_type_exact(loader) ==
    IF rfind_at_0(loader, LoadJpeg) THEN "Jpeg"
    ELSE IF rfind_at_0(loader, LoadPng) THEN "Png"
    ELSE IF rfind_at_0(loader, LoadWebp) THEN "Webp"
    ELSE IF rfind_at_0(loader, LoadTiff) THEN "Tiff"
    ELSE IF rfind_at_0(loader, LoadGif) THEN "Gif"
    ELSE IF rfind_at_0(loader, LoadSvg) THEN "Svg"
    ELSE IF rfind_at_0(loader, LoadPdf) THEN "Pdf"
    ELSE IF loader = LoadHeif THEN "Heif"
    ELSE IF rfind_at_0(loader, LoadMagick) THEN "Magick"
    ELSE "Unknown"

determine_image_type(loader) ==
    IF rfind_at_0(loader, LoadJpeg) THEN "Jpeg"
    ELSE IF rfind_at_0(loader, LoadPng) THEN "Png"
    ELSE IF rfind_at_0(loader, LoadWebp) THEN "Webp"
    ELSE IF rfind_at_0(loader, LoadTiff) THEN "Tiff"
    ELSE IF rfind_at_0(loader, LoadGif) THEN "Gif"
    ELSE IF rfind_at_0(loader, LoadSvg) THEN "Svg"
    ELSE IF rfind_at_0(loader, LoadPdf) THEN "Pdf"
    ELSE IF rfind_at_0(loader, LoadHeif) THEN "Heif"
    ELSE IF rfind_at_0(loader, LoadMagick) THEN "Magick"
    ELSE "Unknown"

image_type_id(image_type) ==
    CASE image_type = "Jpeg"   -> "jpeg"
      [] image_type = "Png"    -> "png"
      [] image_type = "Webp"   -> "webp"
      [] image_type = "Tiff"   -> "tiff"
      [] image_type = "Gif"    -> "gif"
      [] image_type = "Svg"    -> "svg"
      [] image_type = "Pdf"    -> "pdf"
      [] image_type = "Heif"   -> "heif"
      [] image_type = "Magick" -> "magick"
      [] OTHER                 -> "unknown"

RecognizedPrefixes ==
    {LoadJpeg, LoadPng, LoadWebp, LoadTiff, LoadGif, LoadSvg, LoadPdf,
     LoadHeif, LoadMagick}

\* What libvips appends to a loader class name, and some other endings.
LoaderSuffixes ==
    {<<>>, <<"F", "i", "l", "e">>, <<"B", "u", "f", "f", "e", "r">>,
     <<"S", "o", "u", "r", "c", "e">>, <<"7">>, <<"f">>, <<" ">>}

\* Every truncation of a recognized name, every recognized name with an
\* ending, and names of loaders the chain does not know.
LoaderNames ==
    UNION {{SubSeq(p, 1, k) : k \in 0 .. Len(p)} : p \in RecognizedPrefixes}
        \cup {p \o x : p \in RecognizedPrefixes, x \in LoaderSuffixes}
        \cup {VipsForeignLoad \o x : x \in
                {<<"N", "s", "g", "i", "f", "F", "i", "l", "e">>,
                 <<"J", "p", "2", "k">>, <<"J", "x", "l">>,
                 <<"j", "p", "e", "g">>, <<"P", "p", "m">>}}
        \cup {<<"J", "p", "e", "g">>, <<" ">> \o LoadJpeg,
              <<"v">> \o Tail(LoadPng)}

DetermineImageType ==
    /\ pc = "idle" /\ op = None
    /\ \E loader \in LoaderNames :
        /\ op' = "determine_image_type"
        /\ args' = [loader |-> loader]
        /\ ret' = [type |-> determine_image_type(loader),
                   id |-> image_type_id(determine_image_type(loader))]
    /\ UNCHANGED <<build, log, request_vars>>

\* The disjunction without the Heif test.
image_loader_supports_page_noheif(loader) ==
    \/ rfind_at_0(loader, LoadPdf)
    \/ rfind_at_0(loader, LoadGif)
    \/ rfind_at_0(loader, LoadTiff)
    \/ rfind_at_0(loader, LoadWebp)
    \/ rfind_at_0(loader, LoadMagick)

image_loader_supports_page(loader) ==
    \/ rfind_at_0(loader, LoadPdf)
    \/ rfind_at_0(loader, LoadGif)
    \/ rfind_at_0(loader, LoadTiff)
    \/ rfind_at_0(loader, LoadWebp)
    \/ rfind_at_0(loader, LoadHeif)
    \/ rfind_at_0(loader, LoadMagick)

\* A caller asks both questions about one loader name.
ImageLoaderSupportsPage ==
    /\ pc = "idle" /\ op = None
    /\ \E loader \in LoaderNames :
        /\ op' = "image_loader_supports_page"
        /\ args' = [loader |-> loader]
        /\ ret' = [supports_page |-> image_loader_supports_page(loader),
                   type |-> determine_image_type(loader)]
    /\ UNCHANGED <<build, log, request_vars>>

(***************************************************************************)
(* A VImage, as far as the utilities read it: its interpretation, its      *)
(* bands, its band format, its horizontal resolution and its metadata.     *)
(* A band read from the source is "pix"; a band made by bandjoin_const is  *)
(* the constant it is filled with.  xres is kept in tenths of a pixel per  *)
(* millimetre.  chroma is the colourfulness of the colour bands relative   *)
(* to the source, in tenths.  meta is a function from the names of the     *)
(* metadata fields the image carries to their values.                      *)
(***************************************************************************)
\* The colour interpretations, with the number of colour bands of each.
ColourBands(interpretation) ==
    CASE interpretation \in {"VIPS_INTERPRETATION_B_W",
                             "VIPS_INTERPRETATION_GREY16"} -> 1
      [] interpretation = "VIPS_INTERPRETATION_CMYK" -> 4
      [] OTHER -> 3

VipsInterpretation ==
    {"VIPS_INTERPRETATION_B_W", "VIPS_INTERPRETATION_GREY16",
     "VIPS_INTERPRETATION_sRGB", "VIPS_INTERPRETATION_RGB16",
     "VIPS_INTERPRETATION_RGB", "VIPS_INTERPRETATION_scRGB",
     "VIPS_INTERPRETATION_LAB", "VIPS_INTERPRETATION_CMYK"}

\* image.has_alpha(): the image has a band beyond its colour bands.
has_alpha(img) == Len(img.bands) > ColourBands(img.interpretation)

\* image.get_typeof(name) != 0: the image carries the field.
has_field(img, name) == name \in DOMAIN img.meta

\* image.bandjoin_const(c): the image with one band more, filled with c.
bandjoin_const(img, c) == [img EXCEPT !.bands = Append(img.bands, c)]

\* 16-bit taken to be RGB16 alone.
is_16_bit_rgb_only(interpretation) ==
    interpretation = "VIPS_INTERPRETATION_RGB16"

is_16_bit(interpretation) ==
    \/ interpretation = "VIPS_INTERPRETATION_RGB16"
    \/ interpretation = "VIPS_INTERPRETATION_GREY16"

maximum_image_alpha(interpretation) ==
    IF is_16_bit(interpretation) THEN 65535 ELSE 255

ensure_alpha(img) ==
    IF ~has_alpha(img)
    THEN bandjoin_const(img, maximum_image_alpha(img.interpretation))
    ELSE img

\* An image as a loader makes it: the colour bands of its interpretation,
\* and an alpha band if the source has one.
LoadedImage(interpretation, alpha, xres, meta) ==
    [interpretation |-> interpretation,
     bands |-> [i \in 1 .. ColourBands(interpretation) + (IF alpha THEN 1 ELSE 0)
                    |-> "pix"],
     width |-> 4,
     height |-> 6,
     format |-> IF is_16_bit(interpretation)
                THEN "VIPS_FORMAT_USHORT" ELSE "VIPS_FORMAT_UCHAR",
     xres |-> xres,
     chroma |-> 10,
     meta |-> meta]

NoMeta == [k \in {} |-> 0]

EnsureAlpha ==
    /\ pc = "idle" /\ op = None
    /\ \E interpretation \in VipsInterpretation, alpha \in BOOLEAN :
        LET img == LoadedImage(interpretation, alpha, 10, NoMeta)
        IN  /\ op' = "ensure_alpha"
            /\ args' = [image |-> img]
            /\ ret' = ensure_alpha(img)
    /\ UNCHANGED <<build, log, request_vars>>

(***************************************************************************)
(* image_to_json.  The stream `json` is modelled by the members written to *)
(* it, in order: a sequence of <<name, value>> pairs.                      *)
(***************************************************************************)
has_profile(img) == has_field(img, "icc-profile-data")

\* image.xres() > 1.0, xres in tenths.
has_density(img) == img.xres > 10

\* static_cast<int>(std::round(image.xres() * 25.4)), xres in tenths.
get_density(img) == (img.xres * 254 + 50) \div 100

exif_orientation(img) ==
    IF has_field(img, "orientation") THEN img.meta["orientation"] ELSE 0

\* vips_enum_nick of an interpretation or a band format.
vips_enum_nick(value) ==
    CASE value = "VIPS_INTERPRETATION_B_W"    -> "b-w"
      [] value = "VIPS_INTERPRETATION_GREY16" -> "grey16"
      [] value = "VIPS_INTERPRETATION_sRGB"   -> "srgb"
      [] value = "VIPS_INTERPRETATION_RGB16"  -> "rgb16"
      [] value = "VIPS_INTERPRETATION_RGB"    -> "rgb"
      [] value = "VIPS_INTERPRETATION_scRGB"  -> "scrgb"
      [] value = "VIPS_INTERPRETATION_LAB"    -> "lab"
      [] value = "VIPS_INTERPRETATION_CMYK"   -> "cmyk"
      [] value = "VIPS_FORMAT_UCHAR"          -> "uchar"
      [] value = "VIPS_FORMAT_USHORT"         -> "ushort"

\* A member written whether or not the image carries the field.
optional_member_placeholder(img, field, name) ==
    IF has_field(img, field)
    THEN << <<name, img.meta[field]>> >>
    ELSE << <<name, 0>> >>

\* if (image.get_typeof(field) != 0) { json << name << image.get_xxx(field) }
optional_member(img, field, name) ==
    IF has_field(img, field)
    THEN << <<name, img.meta[field]>> >>
    ELSE <<>>

image_to_json(vips_8_9, img, image_type) ==
    << <<"format", image_type_id(image_type)>>,
       <<"width", img.width>>,
       <<"height", img.height>>,
       <<"space", vips_enum_nick(img.interpretation)>>,
       <<"channels", Len(img.bands)>>,
       <<"depth", vips_enum_nick(img.format)>> >>
    \o (IF has_density(img) THEN << <<"density", get_density(img)>> >> ELSE <<>>)
    \o optional_member(img, "jpeg-chroma-subsample", "chromaSubsampling")
    \o << <<"isProgressive", has_field(img, "interlaced")>> >>
    \o optional_member(img, "palette-bit-depth", "paletteBitDepth")
    \o optional_member(img, "n-pages", "pages")
    \o optional_member(img, "page-height", "pageHeight")
    \o (IF vips_8_9
        THEN optional_member(img, "loop", "loop")
        ELSE optional_member(img, "gif-loop", "loop"))
    \o (IF vips_8_9
        THEN optional_member(img, "delay", "delay")
        ELSE IF has_field(img, "gif-delay")
             THEN << <<"delay", <<img.meta["gif-delay"] * 10>> >> >>
             ELSE <<>>)
    \o optional_member(img, "heif-primary", "pagePrimary")
    \o << <<"hasProfile", has_profile(img)>>,
          <<"hasAlpha", has_alpha(img)>>,
          <<"orientation", exif_orientation(img)>> >>

\* The metadata fields image_to_json looks at.
MetaFields ==
    {"icc-profile-data", "orientation", "jpeg-chroma-subsample", "interlaced",
     "palette-bit-depth", "n-pages", "page-height", "loop", "gif-loop",
     "delay", "gif-delay", "heif-primary"}

\* Per-frame delays of an animation of up to MaxFrames frames.
DelayLists == {[i \in 1 .. n |-> 40 * i] : n \in 0 .. MaxFrames}

MetaValue(field) ==
    CASE field = "icc-profile-data"      -> "blob"
      [] field = "orientation"           -> 6
      [] field = "jpeg-chroma-subsample" -> "4:2:0"
      [] field = "interlaced"            -> 1
      [] field = "palette-bit-depth"     -> 8
      [] field = "n-pages"               -> 3
      [] field = "page-height"           -> 2
      [] field = "loop"                  -> 0
      [] field = "gif-loop"              -> 0
      [] field = "gif-delay"             -> 4
      [] field = "heif-primary"          -> 1

\* Every combination of fields carried, with every list of delays.
Metas ==
    {[f \in present |-> IF f = "delay" THEN delays ELSE MetaValue(f)] :
         present \in SUBSET MetaFields, delays \in DelayLists}

\* Resolutions at and above the default of 1 pixel per millimetre (2.8 is
\* 72 dpi).
Resolutions == {10, 11, 28}

JsonSources ==
    {<<"VIPS_INTERPRETATION_sRGB", FALSE, "Jpeg">>,
     <<"VIPS_INTERPRETATION_RGB16", TRUE, "Unknown">>}

ImageToJson ==
    /\ pc = "idle" /\ op = None
    /\ \E src \in JsonSources, xres \in Resolutions, meta \in Metas :
        LET img == LoadedImage(src[1], src[2], xres, meta)
        IN  /\ op' = "image_to_json"
            /\ args' = [image |-> img, image_type |-> src[3]]
            /\ ret' = image_to_json(build.vips_8_9, img, src[3])
    /\ UNCHANGED <<build, log, request_vars>>

(***************************************************************************)
(* The request lifecycle of ApiManagerImpl.  The header declares the entry *)
(* points, clean_up, exception_handler and the internal process; their     *)
(* bodies are described by the specification: validate the query, load the *)
(* source, apply the stages, save to the target, funnel every failure      *)
(* through exception_handler into a Status, release the engine's           *)
(* per-request state, return the Status.                                   *)
(*                                                                         *)
(* request.fault names the step of this request that fails, if any.        *)
(***************************************************************************)
EntryPoints ==
    {"process", "process_file", "process_file_to_buffer", "process_buffer"}

\* Saturations in tenths: those of the tests (0, 0.5, 1, 1.5) and beyond.
Saturations == {0, 5, 10, 15} \cup {10 * (MaxDim + i) : i \in 0 .. 1}

\* A query is a mapping from parameter names to values; here sat or nothing.
Queries == {NoMeta} \cup {[sat |-> x] : x \in Saturations}

Faults == {"none", "validation", "load", "stage", "engine"}

\* exception_handler: every failure becomes a Status carrying the query.
exception_handler(fault, query) ==
    [code |-> CASE fault = "validation" -> "ValidationError"
                [] fault = "load"       -> "IOError"
                [] fault = "stage"      -> "StageError"
                [] OTHER                -> "EngineError",
     query |-> query]

StatusOK == [code |-> "OK", query |-> NoMeta]

\* The saturate stage with the alpha band left behind.
saturate_drop_alpha(img, sat) ==
    LET n == ColourBands(img.interpretation)
    IN  [img EXCEPT !.bands = SubSeq(img.bands, 1, n),
                    !.chroma = (img.chroma * sat) \div 10]

\* The saturate stage: the chroma of the colour bands is scaled by sat; an
\* alpha band is split off before and joined back after.
saturate(img, sat) ==
    LET n == ColourBands(img.interpretation)
        colour == SubSeq(img.bands, 1, n)
        alpha == SubSeq(img.bands, n + 1, Len(img.bands))
    IN  [img EXCEPT !.bands = colour \o alpha,
                    !.chroma = (img.chroma * sat) \div 10]

\* An entry point is called.
Begin ==
    /\ pc = "idle" /\ op = None
    /\ \E entry \in EntryPoints, query \in Queries, fault \in Faults,
          interpretation \in {"VIPS_INTERPRETATION_sRGB",
                              "VIPS_INTERPRETATION_B_W"},
          alpha \in BOOLEAN :
        request' = [entry |-> entry, query |-> query, fault |-> fault,
                    source |-> LoadedImage(interpretation, alpha, 10, NoMeta)]
    /\ pc' = "validate"
    /\ image' = None
    /\ status' = None
    /\ cleanups' = 0
    /\ returned' = None
    /\ UNCHANGED <<build, log, util_vars>>

\* A failing step that returns at once, past clean_up.
Fail_early_return(step) ==
    /\ request.fault = step
    /\ status' = exception_handler(step, request.query)
    /\ pc' = "return"

\* A step of the internal process fails: its Status comes from
\* exception_handler and the entry point goes on to clean_up.
Fail(step) ==
    /\ request.fault = step
    /\ status' = exception_handler(step, request.query)
    /\ pc' = "clean_up"

Validate ==
    /\ pc = "validate"
    /\ \/ Fail("validation") /\ UNCHANGED image
       \/ /\ request.fault # "validation"
          /\ pc' = "load"
          /\ UNCHANGED <<image, status>>
    /\ UNCHANGED <<build, log, util_vars, request, cleanups, returned>>

Load ==
    /\ pc = "load"
    /\ \/ Fail("load") /\ UNCHANGED image
       \/ /\ request.fault # "load"
          /\ image' = request.source
          /\ pc' = "stages"
          /\ UNCHANGED status
    /\ UNCHANGED <<build, log, util_vars, request, cleanups, returned>>

\* The stages in their fixed order; the saturate stage is in the plan when
\* the query has a sat parameter.
Stages ==
    /\ pc = "stages"
    /\ \/ Fail("stage") /\ UNCHANGED image
       \/ /\ request.fault # "stage"
          /\ image' = IF "sat" \in DOMAIN request.query
                      THEN saturate(image, request.query.sat)
                      ELSE image
          /\ pc' = "save"
          /\ UNCHANGED status
    /\ UNCHANGED <<build, log, util_vars, request, cleanups, returned>>

\* The image is realized and written to the target.
Save ==
    /\ pc = "save"
    /\ \/ Fail("engine")
       \/ /\ request.fault # "engine"
          /\ status' = StatusOK
          /\ pc' = "clean_up"
    /\ UNCHANGED <<build, log, util_vars, request, image, cleanups, returned>>

\* clean_up: libvips' per-request data and threads are released.
CleanUp ==
    /\ pc = "clean_up"
    /\ cleanups' = cleanups + 1
    /\ pc' = "return"
    /\ UNCHANGED <<build, log, util_vars, request, image, status, returned>>

\* The entry point returns the Status; a failed request leaves no output.
ReturnStatus ==
    /\ pc = "return"
    /\ returned' = [status |-> status, cleanups |-> cleanups,
                    output |-> IF status.code = "OK" THEN <<image>> ELSE <<>>]
    /\ pc' = "returned"
    /\ UNCHANGED <<build, log, util_vars, request, image, status, cleanups>>

\* The caller takes the Status; the request is over.
Collect ==
    /\ pc = "returned"
    /\ pc' = "idle"
    /\ request' = None /\ image' = None /\ status' = None
    /\ cleanups' = 0 /\ returned' = None
    /\ UNCHANGED <<build, log, util_vars>>

(***************************************************************************)
(* State after construction: nothing called, no request in flight.         *)
(***************************************************************************)
Init ==
    /\ build \in [smul_builtin : BOOLEAN, vips_8_9 : BOOLEAN]
    /\ op = None
    /\ args = None
    /\ ret = None
    /\ log = <<>>
    /\ pc = "idle"
    /\ request = None
    /\ image = None
    /\ status = None
    /\ cleanups = 0
    /\ returned = None

\* The caller takes the result of the utility it called.
Return ==
    /\ op # None
    /\ op' = None /\ args' = None /\ ret' = None
    /\ UNCHANGED <<build, log, request_vars>>

Next ==
    \/ CalculatePosition
    \/ CalculatePositionExchanged
    \/ MulOverflow
    \/ ResolveAngleRotation
    \/ DetermineImageType
    \/ ImageLoaderSupportsPage
    \/ EnsureAlpha
    \/ ImageToJson
    \/ Return
    \/ Begin
    \/ Validate
    \/ Load
    \/ Stages
    \/ Save
    \/ CleanUp
    \/ ReturnStatus
    \/ Collect

Spec == Init /\ [][Next]_vars

-----------------------------------------------------------------------------
(***************************************************************************)
(* Claims.                                                                 *)
(***************************************************************************)

\* C1: for every anchor, calculate_position with in_width = out_width and
\* in_height = out_height returns (left, top) = (0, 0).
C1_EqualDimensionsGiveOrigin ==
    (/\ op = "calculate_position"
     /\ args.in_width = args.out_width
     /\ args.in_height = args.out_height)
        => ret = <<0, 0>>

C1_Witness ==
    /\ op = "calculate_position"
    /\ args.pos = "BottomRight"
    /\ args.in_width = INT_MAX /\ args.out_width = INT_MAX
    /\ args.in_height = 3 /\ args.out_height = 3
    /\ ret = <<0, 0>>

LeftColumn   == {"TopLeft", "Left", "BottomLeft"}
RightColumn  == {"TopRight", "Right", "BottomRight"}
TopRow       == {"TopLeft", "Top", "TopRight"}
BottomRow    == {"BottomLeft", "Bottom", "BottomRight"}

\* h is d halved with the remainder dropped toward zero.
HalfTowardZero(h, d) ==
    \/ 2 * h = d
    \/ d > 0 /\ 2 * h = d - 1
    \/ d < 0 /\ 2 * h = d + 1

\* C2: calculate_position follows the 3x3 grid: with dw = out_width - in_width
\* and dh = out_height - in_height, left is 0 in the left column, dw in the
\* right column and dw/2 otherwise; top is 0 in the top row, dh in the bottom
\* row and dh/2 otherwise; a value that is none of the eight edge and corner
\* anchors is treated as Centre; the same formula serves a negative surplus,
\* where left lies in dw..0 and top in dh..0.
C2_PositionGrid ==
    op = "calculate_position" =>
        LET dw == args.out_width - args.in_width
            dh == args.out_height - args.in_height
            left == ret[1]
            top == ret[2]
        IN  /\ dw \in -INT_MAX .. INT_MAX /\ dh \in -INT_MAX .. INT_MAX
            /\ args.pos \in LeftColumn => left = 0
            /\ args.pos \in RightColumn => left = dw
            /\ args.pos \notin LeftColumn \cup RightColumn
                   => HalfTowardZero(left, dw)
            /\ args.pos \in TopRow => top = 0
            /\ args.pos \in BottomRow => top = dh
            /\ args.pos \notin TopRow \cup BottomRow
                   => HalfTowardZero(top, dh)
            /\ dw < 0 => left >= dw /\ left <= 0
            /\ dh < 0 => top >= dh /\ top <= 0

C2_Witness ==
    /\ op = "calculate_position"
    /\ args.pos = "Other"
    /\ args.out_width - args.in_width = -3
    /\ args.out_height - args.in_height = 1
    /\ ret = <<-1, 0>>

\* Whether the mathematical product a * b lies in INT_MIN .. INT_MAX, decided
\* by division and without forming the product.
ProductFitsInt(a, b) ==
    CASE a = 0 \/ b = 0 -> TRUE
      [] a > 0 /\ b > 0 -> a <= INT_MAX \div b
      [] a > 0 /\ b < 0 -> b >= -((INT_MAX - (a - 1)) \div a) - 1
      [] a < 0 /\ b > 0 -> a >= -((INT_MAX - (b - 1)) \div b) - 1
      [] OTHER          -> /\ a # INT_MIN /\ b # INT_MIN
                           /\ (-b) <= INT_MAX \div (-a)

\* C3: mul_overflow(a, b, &r) returns true exactly when the mathematical
\* product a * b lies outside [-2^31, 2^31 - 1], and otherwise returns false
\* with r the exact product; this holds in both builds of the function.
C3_MulOverflowExact ==
    op = "mul_overflow" =>
        /\ ret.overflow = ~ProductFitsInt(args.a, args.b)
        /\ ProductFitsInt(args.a, args.b) => ret.result = args.a * args.b

C3_Witness ==
    /\ op = "mul_overflow"
    /\ args.a = 46341 /\ args.b = 46341
    /\ ret.overflow
    /\ ret.result = -2147479015

\* C5 as stated: resolve_angle_rotation maps 90, 180 and 270 to their
\* rotations, maps every other angle to the 0 degree rotation, and logs that
\* other angle as unexpected.
C5_UnexpectedAngleLogged ==
    op = "resolve_angle_rotation" =>
        /\ args.angle = 90 => ret = "VIPS_ANGLE_D90"
        /\ args.angle = 180 => ret = "VIPS_ANGLE_D180"
        /\ args.angle = 270 => ret = "VIPS_ANGLE_D270"
        /\ args.angle \notin {90, 180, 270} =>
               /\ ret = "VIPS_ANGLE_D0"
               /\ \E i \in 1 .. Len(log) : log[i] = args.angle

\* C5 amended: resolve_angle_rotation is total: it maps 90, 180 and 270 to
\* their rotations and every other angle (0, negative, above 270,
\* non-multiples of 90) to the 0 degree rotation, always returns a VipsAngle,
\* and writes nothing to the log.
C5_AngleRotationSilentDefault ==
    op = "resolve_angle_rotation" =>
        /\ ret \in VipsAngle
        /\ args.angle = 90 => ret = "VIPS_ANGLE_D90"
        /\ args.angle = 180 => ret = "VIPS_ANGLE_D180"
        /\ args.angle = 270 => ret = "VIPS_ANGLE_D270"
        /\ args.angle \notin {90, 180, 270} => ret = "VIPS_ANGLE_D0"
        /\ log = <<>>

C5_Witness ==
    /\ op = "resolve_angle_rotation"
    /\ args.angle = 360
    /\ ret = "VIPS_ANGLE_D0"
    /\ log = <<>>

TypeOfPrefix ==
    {<<LoadJpeg, "Jpeg", "jpeg">>, <<LoadPng, "Png", "png">>,
     <<LoadWebp, "Webp", "webp">>, <<LoadTiff, "Tiff", "tiff">>,
     <<LoadGif, "Gif", "gif">>, <<LoadSvg, "Svg", "svg">>,
     <<LoadPdf, "Pdf", "pdf">>, <<LoadHeif, "Heif", "heif">>,
     <<LoadMagick, "Magick", "magick">>}

StartsWith(s, p) ==
    /\ Len(p) <= Len(s)
    /\ \A i \in 1 .. Len(p) : s[i] = p[i]

\* C7: determine_image_type is total and its result is one of the ten image
\* types: a loader name starting with one of the nine recognized prefixes
\* maps to the matching type, every other name (the empty one too) maps to
\* Unknown, and image_type_id of Unknown is "unknown".
C7_LoaderClassification ==
    op = "determine_image_type" =>
        /\ ret.type \in ImageType
        /\ \A t \in TypeOfPrefix :
               StartsWith(args.loader, t[1]) => ret.type = t[2] /\ ret.id = t[3]
        /\ (\A t \in TypeOfPrefix : ~StartsWith(args.loader, t[1]))
               => ret.type = "Unknown" /\ ret.id = "unknown"

C7_Witness ==
    /\ op = "determine_image_type"
    /\ \/ args.loader = <<>> /\ ret.id = "unknown"
       \/ args.loader = LoadHeif \o <<"F", "i", "l", "e">> /\ ret.type = "Heif"

\* C6: the alpha fill value is 65535 exactly for the 16-bit interpretations
\* RGB16 and GREY16 and 255 for every other one; ensure_alpha applied to an
\* image without an alpha channel appends exactly one band, filled with that
\* value, and leaves the rest alone, so its result always has alpha.
C6_AlphaFill ==
    op = "ensure_alpha" =>
        LET src == args.image
            n == Len(src.bands)
            sixteen == src.interpretation \in {"VIPS_INTERPRETATION_RGB16",
                                                "VIPS_INTERPRETATION_GREY16"}
        IN  /\ has_alpha(ret)
            /\ ~has_alpha(src) =>
                   /\ Len(ret.bands) = n + 1
                   /\ SubSeq(ret.bands, 1, n) = src.bands
                   /\ sixteen => ret.bands[n + 1] = 65535
                   /\ ~sixteen => ret.bands[n + 1] = 255
                   /\ [ret EXCEPT !.bands = src.bands] = src

C6_Witness ==
    /\ op = "ensure_alpha"
    /\ args.image.interpretation = "VIPS_INTERPRETATION_GREY16"
    /\ args.image.bands = <<"pix">>
    /\ ret.bands = <<"pix", 65535>>

MemberNames(json) == {json[i][1] : i \in 1 .. Len(json)}

MandatoryMembers ==
    {"format", "width", "height", "space", "channels", "depth",
     "isProgressive", "hasProfile", "hasAlpha", "orientation"}

\* Each optional member with the descriptor field it mirrors; the loop count
\* and the delays are kept under other names before libvips 8.9.
OptionalMembers(vips_8_9) ==
    {<<"chromaSubsampling", "jpeg-chroma-subsample">>,
     <<"paletteBitDepth", "palette-bit-depth">>,
     <<"pages", "n-pages">>,
     <<"pageHeight", "page-height">>,
     <<"loop", IF vips_8_9 THEN "loop" ELSE "gif-loop">>,
     <<"delay", IF vips_8_9 THEN "delay" ELSE "gif-delay">>,
     <<"pagePrimary", "heif-primary">>}

\* C8: in the report of image_to_json each optional member (density,
\* chromaSubsampling, paletteBitDepth, pages, pageHeight, loop, delay,
\* pagePrimary) appears if and only if the image carries the corresponding
\* descriptor field (for density: a non-default resolution), nothing is
\* written for an absent field, and the ten mandatory members appear in
\* every report, each member once.
C8_ReportMirrorsDescriptor ==
    op = "image_to_json" =>
        LET names == MemberNames(ret)
            carried == DOMAIN args.image.meta
        IN  /\ MandatoryMembers \subseteq names
            /\ ("density" \in names) = (args.image.xres > 10)
            /\ \A o \in OptionalMembers(build.vips_8_9) :
                   (o[1] \in names) = (o[2] \in carried)
            /\ Cardinality(names) = Len(ret)
            /\ Len(ret) = Cardinality(MandatoryMembers)
                          + (IF args.image.xres > 10 THEN 1 ELSE 0)
                          + Cardinality({o \in OptionalMembers(build.vips_8_9) :
                                             o[2] \in carried})

C8_Witness ==
    /\ op = "image_to_json"
    /\ DOMAIN args.image.meta = {"n-pages", "delay", "orientation"}
    /\ args.image.xres = 10
    /\ build.vips_8_9
    /\ MemberNames(ret) = MandatoryMembers \cup {"pages", "delay"}

\* C9: for every request, through every entry point and on every exit path
\* (success, validation failure, stage failure, engine exception), clean_up
\* runs exactly once, and it has run before the Status is returned.
C9_CleanupOnceBeforeReturn ==
    /\ cleanups \in {0, 1}
    /\ pc = "return" => cleanups = 1
    /\ pc = "returned" =>
           /\ returned.cleanups = 1
           /\ cleanups = 1
           /\ returned.status = status
           /\ (status.code = "OK") = (request.fault = "none")

C9_Witness ==
    /\ pc = "returned"
    /\ request.entry = "process_buffer"
    /\ request.fault = "validation"
    /\ returned.status.code = "ValidationError"
    /\ returned.cleanups = 1

\* C10: a request with a sat parameter (0, 0.5, 1, 1.5 or any other value)
\* on a source image with an alpha channel yields an output image that still
\* has an alpha channel.
C10_SaturateKeepsAlpha ==
    (/\ pc = "returned"
     /\ returned.status.code = "OK"
     /\ "sat" \in DOMAIN request.query
     /\ has_alpha(request.source))
        => /\ Len(returned.output) = 1
           /\ has_alpha(returned.output[1])
           /\ returned.output[1].bands = request.source.bands

C10_Witness ==
    /\ pc = "returned"
    /\ returned.status.code = "OK"
    /\ request.query = [sat |-> 0]
    /\ has_alpha(request.source)
    /\ returned.output[1].chroma = 0
    /\ has_alpha(returned.output[1])

\* C11: calculate_position is antisymmetric under exchanging the inner and
\* the outer rectangle: if calculate_position(a, b, c, d, pos) = (l, t) then
\* calculate_position(c, d, a, b, pos) = (-l, -t), for every anchor, odd
\* surpluses included, since the halving truncates toward zero.
C11_PositionAntisymmetric ==
    op = "calculate_position_exchanged" =>
        /\ ret.second[1] = -ret.first[1]
        /\ ret.second[2] = -ret.first[2]

C11_Witness ==
    /\ op = "calculate_position_exchanged"
    /\ args.pos = "Centre"
    /\ args.out_width - args.in_width = -3
    /\ args.out_height - args.in_height = 1
    /\ ret.first = <<-1, 0>>
    /\ ret.second = <<1, 0>>

PagedTypes == {"Pdf", "Gif", "Tiff", "Webp", "Heif", "Magick"}

\* C12: image_loader_supports_page(loader) is true if and only if
\* determine_image_type(loader) is one of Pdf, Gif, Tiff, Webp, Heif and
\* Magick (so it is false for Jpeg, Png, Svg and Unknown loaders); no
\* recognized prefix is a prefix of another, so at most one prefix test
\* matches a loader name and the type does not depend on the order of the
\* tests.
C12_PagedLoadersAgree ==
    op = "image_loader_supports_page" =>
        /\ ret.supports_page = (ret.type \in PagedTypes)
        /\ ret.type \in {"Jpeg", "Png", "Svg", "Unknown"} => ~ret.supports_page
        /\ \A t \in TypeOfPrefix, u \in TypeOfPrefix :
               t # u => ~StartsWith(t[1], u[1])
        /\ Cardinality({t \in TypeOfPrefix : StartsWith(args.loader, t[1])}) <= 1
        /\ \A t \in TypeOfPrefix :
               StartsWith(args.loader, t[1]) => ret.type = t[2]

C12_Witness ==
    /\ op = "image_loader_supports_page"
    /\ args.loader = LoadHeif \o <<"B", "u", "f", "f", "e", "r">>
    /\ ret.type = "Heif"
    /\ ret.supports_page

=============================================================================
